---- MODULE Spec2Model ----
(***************************************************************************)
(* The two MCP probe clients of dudgeon/waddle-demo:                       *)
(*   MCPClient     (src/server/test_mcp_connection.py)  JSON-RPC over POST *)
(*   MCPSSEClient  (src/server/test_mcp_sse.py)         event-stream GET   *)
(* Text whose content matters (bodies, error strings, stream lines) is a   *)
(* sequence of one-character strings; keys, method names and session ids   *)
(* are TLA+ strings. A Python dict is a function on its keys. An optional  *)
(* value is the empty set (None) or a singleton.                           *)
(***************************************************************************)
EXTENDS Integers, Sequences, FiniteSets, TLC

VARIABLES
    \* ---- MCPClient
    session_id,     \* self.session_id
    call,           \* the operation the caller invoked last, with its arguments
    request,        \* the outgoing POST of that call (json, headers)
    response,       \* what the transport gave back for it
    result,         \* what the call gave its caller: a return value or a raise
    handed,         \* the session header value the server handed back last
    passed,         \* the method and params send_request was called with
    client_calls,   \* operations callers have invoked on the MCPClient
    client_posts,   \* HTTP POSTs the MCPClient has issued
    \* ---- MCPSSEClient and its driver test_mcp_sse_server
    gen,            \* the connect_sse generator: where it stands
    conn,           \* the streaming connection: none, open, closed
    releases,       \* how often the async-with block of connect_sse was left
    sse_status,     \* status code of the streaming GET, once answered
    delivered,      \* the lines aiter_lines has produced so far
    yielded,        \* the lines connect_sse has yielded so far
    events_received,\* the driver's counter
    driver_pc,      \* the driver: start, loop, after_loop, exited
    loop_end,       \* how the driver's async for ended
    caught,         \* the except clause of the driver that ran, if any
    fault,          \* where a transport error struck: connect or midstream
    sse_connects,   \* calls of connect_sse that have started running
    sse_gets,       \* streaming GETs the MCPSSEClient has opened
    \* ---- MCPSSEClient.send_mcp_request
    post_call,      \* the method and params it was called with last
    post_request,   \* the outgoing POST of that call (json, headers)
    post_response,  \* what the transport gave back for it
    post_result,    \* what the call gave its caller: a return value or a raise
    post_calls,     \* calls of send_mcp_request
    post_posts,     \* HTTP POSTs send_mcp_request has issued
    \* ---- main() of the installation check
    api_key,        \* os.getenv("OPENAI_API_KEY")
    main_pc,        \* index in tests of the next check to run
    ran,            \* names of the checks run so far, in order
    returned,       \* what each of them returned
    tests_passed,   \* main's counter `passed`
    exit_status     \* what main returned, once it has

client_vars == <<session_id, call, request, response, result, handed,
                 passed, client_calls, client_posts>>

sse_vars == <<gen, conn, releases, sse_status, delivered, yielded,
              events_received, driver_pc, loop_end, caught, fault>>

get_vars == <<sse_connects, sse_gets>>

post_vars == <<post_call, post_request, post_response, post_result,
               post_calls, post_posts>>

main_vars == <<api_key, main_pc, ran, returned, tests_passed, exit_status>>

vars == <<session_id, call, request, response, result, handed,
          passed, client_calls, client_posts,
          gen, conn, releases, sse_status, delivered, yielded,
          events_received, driver_pc, loop_end, caught, fault,
          sse_connects, sse_gets,
          post_call, post_request, post_response, post_result,
          post_calls, post_posts,
          api_key, main_pc, ran, returned, tests_passed, exit_status>>

-----------------------------------------------------------------------------
(* Python values *)

None == {}
Some(v) == {v}
TheVal(o) == CHOOSE v \in o : TRUE

EmptyDict == [k \in {} |-> {}]

\* bool(d) of a dict
TruthyDict(d) == DOMAIN d # {}

\* bool(o) of an Optional[dict]
TruthyOptDict(o) == o # None /\ TruthyDict(TheVal(o))

\* bool(o) of an Optional[str] (strings here are TLA+ strings)
TruthyOptStr(o) == o # None /\ TheVal(o) # ""

DigitChars == <<"0", "1", "2", "3", "4", "5", "6", "7", "8", "9">>

\* str(n) of a non-negative int
RECURSIVE IntToStr(_)
IntToStr(n) ==
    IF n < 10 THEN <<DigitChars[n + 1]>>
    ELSE IntToStr(n \div 10) \o <<DigitChars[(n % 10) + 1]>>

\* sub in s, of two texts
Contains(s, sub) ==
    \E i \in 0..(Len(s) - Len(sub)) : SubSeq(s, i + 1, i + Len(sub)) = sub

\* ''.join(cs)
RECURSIVE Join(_)
Join(cs) == IF cs = <<>> THEN "" ELSE Head(cs) \o Join(Tail(cs))

Letters == {"a", "e", "l", "o", "p", "r", "s", "t", "u"}

\* response.json(), on the texts of Bodies: the empty object, or an object of
\* one member whose value is a digit; every other text raises a decode error.
IsEmptyObject(t) == t = <<"{", "}">>

IsOneMemberObject(t) ==
    /\ Len(t) >= 7
    /\ t[1] = "{" /\ t[2] = "\""
    /\ \A i \in 3..(Len(t) - 4) : t[i] \in Letters
    /\ t[Len(t) - 3] = "\"" /\ t[Len(t) - 2] = ":"
    /\ \E d \in 1..10 : DigitChars[d] = t[Len(t) - 1]
    /\ t[Len(t)] = "}"

Decodable(t) == IsEmptyObject(t) \/ IsOneMemberObject(t)

JsonDecode(t) ==
    IF IsEmptyObject(t) THEN EmptyDict
    ELSE LET key == Join(SubSeq(t, 3, Len(t) - 4))
             val == (CHOOSE d \in 1..10 : DigitChars[d] = t[Len(t) - 1]) - 1
         IN  key :> val

\* str(e) of the json.JSONDecodeError
DecodeErrorText == <<"E", "x", "p", "e", "c", "t", "i", "n", "g", " ",
                     "v", "a", "l", "u", "e">>

-----------------------------------------------------------------------------
(* What the server and the transport may do, and what the caller may pass *)

\* operations a caller invokes on one client object
MaxCalls == 2

StatusCodes == {200, 404, 500}

SessionValues == {"", "s1", "s2"}

Bodies ==
    { <<>>,
      <<"{", "}">>,
      <<"{", "\"", "r", "e", "s", "u", "l", "t", "\"", ":", "1", "}">>,
      <<"{", "\"", "e", "r", "r", "o", "r", "\"", ":", "2", "}">>,
      <<"o", "o", "p", "s">> }

\* str(e) of a transport exception; httpx timeouts have an empty message
ExceptionTexts == { <<>>, <<"r", "e", "f", "u", "s", "e", "d">> }

ResponseHeaders ==
    {EmptyDict} \cup {("mcp-session-id" :> v) : v \in SessionValues}

Outcomes ==
    [kind : {"response"}, status : StatusCodes, headers : ResponseHeaders,
     text : Bodies]
    \cup [kind : {"failure"}, status : {0}, headers : {EmptyDict},
          text : ExceptionTexts]

ToolNames == {"x", "get_balance"}

ArgumentDicts == {EmptyDict, ("a" :> 1)}

-----------------------------------------------------------------------------
(* MCPClient.send_request *)

\* request_data, with params when truthy
RequestData(method, params) ==
    LET base == [jsonrpc |-> "2.0", id |-> 1, method |-> method]
    IN  IF TruthyOptDict(params)
        THEN base @@ ("params" :> TheVal(params))
        ELSE base

\* headers, with the session header when self.session_id is truthy
RequestHeaders(sid) ==
    LET base == ("Content-Type" :> "application/json")
                @@ ("Accept" :> "application/json")
    IN  IF TruthyOptStr(sid)
        THEN base @@ ("mcp-session-id" :> TheVal(sid))
        ELSE base

\* (mutant) the session id is kept once set
CaptureSessionOnce(sid, headers) ==
    IF sid = None /\ "mcp-session-id" \in DOMAIN headers
    THEN Some(headers["mcp-session-id"])
    ELSE sid

\* (mutant) self.session_id = response.headers.get("mcp-session-id")
CaptureSessionGet(sid, headers) ==
    IF "mcp-session-id" \in DOMAIN headers
    THEN Some(headers["mcp-session-id"])
    ELSE None

\* self.session_id after the response headers were looked at
CaptureSession(sid, headers) ==
    IF "mcp-session-id" \in DOMAIN headers
    THEN Some(headers["mcp-session-id"])
    ELSE sid

Return(v) == [kind |-> "return", value |-> v, type |-> "", exc |-> <<>>]
Raise(type, text) ==
    [kind |-> "raise", value |-> EmptyDict, type |-> type, exc |-> text]

\* (mutant) the error string is the body text alone
StatusBranchBodyOnly(o) ==
    IF o.status = 200
    THEN IF Decodable(o.text) THEN Return(JsonDecode(o.text))
         ELSE Raise("JSONDecodeError", DecodeErrorText)
    ELSE Return("error" :> o.text)

\* the status branch inside the try block: a return, or the exception that
\* response.json() throws
StatusBranch(o) ==
    IF o.status = 200
    THEN IF Decodable(o.text) THEN Return(JsonDecode(o.text))
         ELSE Raise("JSONDecodeError", DecodeErrorText)
    ELSE Return("error" :> (<<"H", "T", "T", "P", " ">> \o IntToStr(o.status)
                            \o <<":", " ">> \o o.text))

\* the try block: client.post raises on a transport failure
TryBlock(o) ==
    IF o.kind = "failure" THEN Raise("TransportError", o.text)
    ELSE StatusBranch(o)

\* (mutant) only transport errors are caught
ExceptHandlerTransportOnly(r) ==
    IF r.kind = "raise" /\ r.type = "TransportError"
    THEN Return("error" :> r.exc)
    ELSE r

\* except Exception as e: return {"error": str(e)}
ExceptHandler(r) ==
    IF r.kind = "raise" THEN Return("error" :> r.exc) ELSE r

\* (mutant) a failed post is tried once more
PostsPerCallRetry(o) == IF o.kind = "failure" THEN 2 ELSE 1

\* how often send_request awaits self.client.post: once, outside any loop
PostsPerCall(o) == 1

send_request(method, params, o) ==
    /\ client_calls < MaxCalls
    /\ client_calls' = client_calls + 1
    /\ client_posts' = client_posts + PostsPerCall(o)
    /\ passed' = [method |-> method, params |-> params]
    /\ request' = [sent |-> TRUE, data |-> RequestData(method, params),
                   headers |-> RequestHeaders(session_id)]
    /\ response' = o
    /\ session_id' = IF o.kind = "response"
                     THEN CaptureSession(session_id, o.headers)
                     ELSE session_id
    /\ handed' = IF o.kind = "response" /\ "mcp-session-id" \in DOMAIN o.headers
                 THEN Some(o.headers["mcp-session-id"])
                 ELSE handed
    /\ result' = ExceptHandler(TryBlock(o))

InitializeParams ==
    [protocolVersion |-> "2024-11-05",
     capabilities |-> [tools |-> EmptyDict],
     clientInfo |-> [name |-> "test-mcp-client", version |-> "1.0.0"]]

initialize ==
    \E o \in Outcomes :
        /\ call' = [op |-> "initialize", tool_name |-> "", arguments |-> None]
        /\ send_request("initialize", Some(InitializeParams), o)
        /\ UNCHANGED <<sse_vars, get_vars, post_vars, main_vars>>

list_tools ==
    \E o \in Outcomes :
        /\ call' = [op |-> "list_tools", tool_name |-> "", arguments |-> None]
        /\ send_request("tools/list", None, o)
        /\ UNCHANGED <<sse_vars, get_vars, post_vars, main_vars>>

\* (mutant) if arguments is not None
CallToolParamsNotNone(tool_name, arguments) ==
    IF arguments # None
    THEN ("name" :> tool_name) @@ ("arguments" :> TheVal(arguments))
    ELSE ("name" :> tool_name)

\* params of tools/call
CallToolParams(tool_name, arguments) ==
    IF TruthyOptDict(arguments)
    THEN ("name" :> tool_name) @@ ("arguments" :> TheVal(arguments))
    ELSE ("name" :> tool_name)

call_tool ==
    \E tool_name \in ToolNames,
       arguments \in {None} \cup {Some(d) : d \in ArgumentDicts},
       o \in Outcomes :
        /\ call' = [op |-> "call_tool", tool_name |-> tool_name,
                    arguments |-> arguments]
        /\ send_request("tools/call",
                        Some(CallToolParams(tool_name, arguments)), o)
        /\ UNCHANGED <<sse_vars, get_vars, post_vars, main_vars>>

ClientInit ==
    /\ session_id = None
    /\ call = [op |-> "none", tool_name |-> "", arguments |-> None]
    /\ request = [sent |-> FALSE, data |-> EmptyDict, headers |-> EmptyDict]
    /\ response = [kind |-> "none", status |-> 0, headers |-> EmptyDict,
                   text |-> <<>>]
    /\ result = [kind |-> "none", value |-> EmptyDict, type |-> "",
                 exc |-> <<>>]
    /\ handed = None
    /\ passed = [method |-> "", params |-> None]
    /\ client_calls = 0
    /\ client_posts = 0

ClientNext == initialize \/ list_tools \/ call_tool


-----------------------------------------------------------------------------
(* MCPSSEClient.connect_sse and the driver test_mcp_sse_server *)

MaxBlank == 1

max_events == 10

Whitespace == {" ", "\t"}

\* the lines the server may send: empty, whitespace only, and two that are
\* neither, one of them with leading whitespace
Lines == { <<>>, <<"\t">>, <<"a">>, <<" ", "b">> }

\* the transport errors, by the except clause of the driver that takes them
ErrorKinds == {"asyncio.TimeoutError", "httpx.TransportError"}

RECURSIVE lstrip(_)
lstrip(l) ==
    IF l # <<>> /\ Head(l) \in Whitespace THEN lstrip(Tail(l)) ELSE l

RECURSIVE rstrip(_)
rstrip(l) ==
    IF l # <<>> /\ l[Len(l)] \in Whitespace
    THEN rstrip(SubSeq(l, 1, Len(l) - 1))
    ELSE l

\* line.strip()
strip(l) == rstrip(lstrip(l))

\* (mutant) if line:
ShouldYieldNoStrip(line) == line # <<>>

\* if line.strip():
ShouldYield(line) == strip(line) # <<>>

\* (mutant) the status is not looked at
StatusOkAlways(status) == TRUE

\* not (response.status_code != 200)
StatusOk(status) == status = 200

\* (mutant) connect_sse catches the transport error and returns
GenAfterErrorSwallowed == "done"

\* connect_sse has no except clause: an exception raised at the await inside
\* the async-with block leaves the generator through that block
GenAfterError == "raised"

\* which except clause of the driver takes an exception of this kind
ExceptClause(kind) ==
    IF kind = "asyncio.TimeoutError" THEN "asyncio.TimeoutError"
    ELSE "Exception"

BlankCount(ls) == Len(SelectSeq(ls, LAMBDA l : ~ShouldYield(l)))

\* how often connect_sse enters self.client.stream: once, outside any loop
GetsPerConnect == 1

\* the driver enters its async for: connect_sse runs up to its first await on
\* aiter_lines, to its return on a non-200 status, or to a transport error of
\* the GET
Connect ==
    /\ driver_pc = "start"
    /\ \/ \E kind \in ErrorKinds :
            /\ fault' = "connect"
            /\ gen' = GenAfterError
            /\ loop_end' = IF gen' = "raised" THEN "exception" ELSE "exhausted"
            /\ caught' = IF gen' = "raised" THEN ExceptClause(kind) ELSE ""
            /\ driver_pc' = "after_loop"
            /\ UNCHANGED <<conn, releases, sse_status>>
       \/ \E status \in StatusCodes :
            /\ sse_status' = Some(status)
            /\ IF StatusOk(status)
               THEN /\ conn' = "open"
                    /\ gen' = "reading"
                    /\ driver_pc' = "loop"
                    /\ UNCHANGED <<releases, loop_end>>
               ELSE /\ conn' = "closed"
                    /\ releases' = releases + 1
                    /\ gen' = "done"
                    /\ driver_pc' = "after_loop"
                    /\ loop_end' = "exhausted"
            /\ UNCHANGED <<caught, fault>>
    /\ sse_connects' = sse_connects + 1
    /\ sse_gets' = sse_gets + GetsPerConnect
    /\ UNCHANGED <<delivered, yielded, events_received>>
    /\ UNCHANGED <<client_vars, post_vars, main_vars>>

\* aiter_lines produces a line: connect_sse yields it or goes on reading; on a
\* yield the body of the driver's loop runs, up to its break or its next
\* request for a line
ReadLine ==
    /\ gen = "reading"
    /\ \E line \in Lines :
        /\ ShouldYield(line) \/ BlankCount(delivered) < MaxBlank
        /\ delivered' = Append(delivered, line)
        /\ IF ShouldYield(line)
           THEN /\ yielded' = Append(yielded, line)
                /\ events_received' = events_received + 1
                /\ IF events_received' >= max_events
                   THEN /\ gen' = "suspended"
                        /\ driver_pc' = "after_loop"
                        /\ loop_end' = "break"
                   ELSE UNCHANGED <<gen, driver_pc, loop_end>>
           ELSE UNCHANGED <<yielded, events_received, gen, driver_pc,
                            loop_end>>
    /\ UNCHANGED <<conn, releases, sse_status, caught, fault>>
    /\ UNCHANGED <<client_vars, get_vars, post_vars, main_vars>>

\* the server ends the stream: aiter_lines is exhausted, the async-with block
\* is left, the generator returns and the driver's loop ends
StreamEnd ==
    /\ gen = "reading"
    /\ gen' = "done"
    /\ conn' = "closed"
    /\ releases' = releases + 1
    /\ driver_pc' = "after_loop"
    /\ loop_end' = "exhausted"
    /\ UNCHANGED <<sse_status, delivered, yielded, events_received, caught,
                   fault>>
    /\ UNCHANGED <<client_vars, get_vars, post_vars, main_vars>>

\* a transport error at the await on aiter_lines: the async-with block is left
\* by the exception, which then reaches the driver's async for
StreamError ==
    /\ gen = "reading"
    /\ \E kind \in ErrorKinds :
        /\ fault' = "midstream"
        /\ gen' = GenAfterError
        /\ conn' = "closed"
        /\ releases' = releases + 1
        /\ driver_pc' = "after_loop"
        /\ loop_end' = IF gen' = "raised" THEN "exception" ELSE "exhausted"
        /\ caught' = IF gen' = "raised" THEN ExceptClause(kind) ELSE ""
    /\ UNCHANGED <<sse_status, delivered, yielded, events_received>>
    /\ UNCHANGED <<client_vars, get_vars, post_vars, main_vars>>

\* after a break the generator stays suspended at its yield, inside the
\* async-with block; the block is left only when the event loop finalizes the
\* unreferenced generator (aclose() throws GeneratorExit at the yield)
AsyncGenFinalize ==
    /\ gen = "suspended"
    /\ loop_end = "break"
    /\ gen' = "closed"
    /\ conn' = "closed"
    /\ releases' = releases + 1
    /\ UNCHANGED <<sse_status, delivered, yielded, events_received, driver_pc,
                   loop_end, caught, fault>>
    /\ UNCHANGED <<client_vars, get_vars, post_vars, main_vars>>

\* MCPSSEClient.__aexit__: the httpx client is closed, with its connections
ClientAexit ==
    /\ driver_pc = "after_loop"
    /\ driver_pc' = "exited"
    /\ conn' = IF conn = "open" THEN "closed" ELSE conn
    /\ UNCHANGED <<gen, releases, sse_status, delivered, yielded,
                   events_received, loop_end, caught, fault>>
    /\ UNCHANGED <<client_vars, get_vars, post_vars, main_vars>>

SSEInit ==
    /\ gen = "created"
    /\ conn = "none"
    /\ releases = 0
    /\ sse_status = None
    /\ delivered = <<>>
    /\ yielded = <<>>
    /\ events_received = 0
    /\ driver_pc = "start"
    /\ loop_end = "none"
    /\ caught = ""
    /\ fault = "none"
    /\ sse_connects = 0
    /\ sse_gets = 0

SSENext ==
    Connect \/ ReadLine \/ StreamEnd \/ StreamError \/ AsyncGenFinalize
    \/ ClientAexit

-----------------------------------------------------------------------------
(* MCPSSEClient.send_mcp_request *)

PostMethods == {"initialize", "tools/list"}

PostParams == {None, Some(EmptyDict), Some("a" :> 1)}

\* what the POST may meet while the httpx client is open
PostOutcomes ==
    [kind : {"response"}, status : StatusCodes, headers : {EmptyDict},
     text : { <<"{", "\"", "r", "e", "s", "u", "l", "t", "\"", ":", "1", "}">> }]
    \cup [kind : {"failure"}, status : {0}, headers : {EmptyDict},
          text : ExceptionTexts]

\* after __aexit__ the httpx client is closed and post() raises
ClosedClientOutcomes ==
    [kind : {"failure"}, status : {0}, headers : {EmptyDict},
     text : { <<"c", "l", "o", "s", "e", "d">> }]

\* (mutant) if params is not None
PostRequestDataNotNone(method, params) ==
    LET base == [jsonrpc |-> "2.0", id |-> 1, method |-> method]
    IN  IF params # None
        THEN base @@ ("params" :> TheVal(params))
        ELSE base

\* request_data of send_mcp_request, with params when truthy
PostRequestData(method, params) ==
    LET base == [jsonrpc |-> "2.0", id |-> 1, method |-> method]
    IN  IF TruthyOptDict(params)
        THEN base @@ ("params" :> TheVal(params))
        ELSE base

PostRequestHeaders == ("Content-Type" :> "application/json")

\* the try block: the status is logged, the body is logged on a non-200, and
\* the function runs off its end, which returns None
PostTryBlock(o) ==
    IF o.kind = "failure" THEN Raise("TransportError", o.text)
    ELSE Return(None)

\* (mutant) the exception is logged and raised again
PostExceptHandlerReraise(r) == r

\* except Exception as e: logger.error(...), then None is returned
PostExceptHandler(r) ==
    IF r.kind = "raise" THEN Return(None) ELSE r

\* how often send_mcp_request awaits self.client.post
PostsPerSend(o) == 1

send_mcp_request ==
    /\ post_calls < MaxCalls
    /\ \E method \in PostMethods, params \in PostParams,
          o \in (IF driver_pc = "exited" THEN ClosedClientOutcomes
                 ELSE PostOutcomes) :
        /\ post_call' = [method |-> method, params |-> params,
                         open |-> (conn = "open"), seen |-> Len(yielded)]
        /\ post_request' = [sent |-> TRUE,
                            data |-> PostRequestData(method, params),
                            headers |-> PostRequestHeaders]
        /\ post_response' = o
        /\ post_result' = PostExceptHandler(PostTryBlock(o))
        /\ post_calls' = post_calls + 1
        /\ post_posts' = post_posts + PostsPerSend(o)
    /\ UNCHANGED <<client_vars, sse_vars, get_vars, main_vars>>

PostInit ==
    /\ post_call = [method |-> "", params |-> None, open |-> FALSE,
                    seen |-> 0]
    /\ post_request = [sent |-> FALSE, data |-> EmptyDict,
                       headers |-> EmptyDict]
    /\ post_response = [kind |-> "none", status |-> 0, headers |-> EmptyDict,
                        text |-> <<>>]
    /\ post_result = [kind |-> "none", value |-> EmptyDict, type |-> "",
                      exc |-> <<>>]
    /\ post_calls = 0
    /\ post_posts = 0

-----------------------------------------------------------------------------
(* Callers other than the two drivers: any operation of a client, in any    *)
(* order. Each script is a process of its own, so a behaviour uses one of   *)
(* the two clients.                                                         *)

\* lines the server sends on the stream while callers also post
MaxStreamed == 2

\* send_request called directly, with any params
send_request_direct ==
    \E method \in PostMethods, params \in PostParams, o \in Outcomes :
        /\ call' = [op |-> "send_request", tool_name |-> "",
                    arguments |-> None]
        /\ send_request(method, params, o)
        /\ UNCHANGED <<sse_vars, get_vars, post_vars, main_vars>>

StreamLine == Len(delivered) < MaxStreamed /\ ReadLine

SSEIdle == driver_pc = "start" /\ post_calls = 0

ClientIdle == client_calls = 0

CallsNext ==
    \/ SSEIdle /\ initialize
    \/ SSEIdle /\ list_tools
    \/ SSEIdle /\ call_tool
    \/ SSEIdle /\ send_request_direct
    \/ ClientIdle /\ Connect
    \/ ClientIdle /\ StreamLine
    \/ ClientIdle /\ StreamEnd
    \/ ClientIdle /\ StreamError
    \/ ClientIdle /\ ClientAexit
    \/ ClientIdle /\ send_mcp_request

-----------------------------------------------------------------------------
(* main() of src/test_openai_agents.py *)

\* the names in the list `tests`
tests == <<"Installation", "API Key", "Basic Agent", "Function Tools",
           "Structured Output">>

total == Len(tests)

ApiKeys == { None, Some(<<>>), Some(<<"s", "k">>),
             Some(<<"p", "k", "-", "1">>), Some(<<"s", "k", "-", "1">>) }

\* what may happen inside each check
Happenings(i) ==
    CASE i = 1 -> {"imported", "ImportError"}
      [] i = 2 -> {"getenv"}
      [] i = 3 -> {"final_output", "no_output", "exception"}
      [] i = 4 -> {"final_output", "no_output", "exception"}
      [] i = 5 -> {"TestResponse", "other_output", "no_output", "exception"}

\* s.startswith(prefix)
startswith(s, prefix) ==
    Len(s) >= Len(prefix) /\ SubSeq(s, 1, Len(prefix)) = prefix

test_installation(h) == h = "imported"

test_api_key(key) ==
    key # None /\ TheVal(key) # <<>>
    /\ startswith(TheVal(key), <<"s", "k", "-">>)

test_basic_agent(h) == h = "final_output"

test_function_tools(h) == h = "final_output"

test_structured_output(h) == h = "TestResponse"

\* test_func() for the i-th entry of tests
test_func(i, h, key) ==
    CASE i = 1 -> test_installation(h)
      [] i = 2 -> test_api_key(key)
      [] i = 3 -> test_basic_agent(h)
      [] i = 4 -> test_function_tools(h)
      [] i = 5 -> test_structured_output(h)

\* (mutant) if passed:
ExitStatusAnyPassed(p, t) == IF p > 0 THEN 0 ELSE 1

\* return 0 if passed == total else 1
ExitStatus(p, t) == IF p = t THEN 0 ELSE 1

\* one turn of the for loop
RunTest ==
    /\ main_pc \in 1..total
    /\ \E h \in Happenings(main_pc),
          key \in (IF main_pc = 2 THEN ApiKeys ELSE {api_key}) :
        LET r == test_func(main_pc, h, key)
        IN  /\ api_key' = key
            /\ ran' = Append(ran, tests[main_pc])
            /\ returned' = Append(returned, r)
            /\ tests_passed' = IF r THEN tests_passed + 1 ELSE tests_passed
    /\ main_pc' = main_pc + 1
    /\ UNCHANGED exit_status
    /\ UNCHANGED <<client_vars, sse_vars, get_vars, post_vars>>

\* after the loop: the summary and the return
MainReturn ==
    /\ main_pc = total + 1
    /\ exit_status = None
    /\ exit_status' = Some(ExitStatus(tests_passed, total))
    /\ UNCHANGED <<api_key, main_pc, ran, returned, tests_passed>>
    /\ UNCHANGED <<client_vars, sse_vars, get_vars, post_vars>>

MainInit ==
    /\ api_key = None
    /\ main_pc = 1
    /\ ran = <<>>
    /\ returned = <<>>
    /\ tests_passed = 0
    /\ exit_status = None

MainNext == RunTest \/ MainReturn

Init == ClientInit /\ SSEInit /\ PostInit /\ MainInit

SpecClient == Init /\ [][ClientNext]_vars

SpecSSE == Init /\ [][SSENext]_vars

SpecCalls == Init /\ [][CallsNext]_vars

SpecMain == Init /\ [][MainNext]_vars

-----------------------------------------------------------------------------
(* Claims about MCPClient, checked under SpecClient *)

SessionHeader == "mcp-session-id"

\* C1 (as claimed): once a response has carried the session header, every
\* later outgoing request carries that header with the value handed back,
\* the empty string included.
C1_SessionEchoed ==
    [][handed # None =>
          /\ SessionHeader \in DOMAIN request'.headers
          /\ request'.headers[SessionHeader] = TheVal(handed)]_vars

\* C2 (as claimed): session_id is set at most once; once set, no later
\* response changes it.
C2_SetAtMostOnce ==
    [][session_id # None => session_id' = session_id]_vars

\* C2 (amended): session_id is None at construction, and after every call it
\* is the header value of the response just processed when that response
\* carries the session header (replacing any earlier value), and is what it
\* was before otherwise.
C2_LastHeaderWins ==
    /\ session_id = None
    /\ [][session_id' =
            IF response'.kind = "response"
               /\ SessionHeader \in DOMAIN response'.headers
            THEN Some(response'.headers[SessionHeader])
            ELSE session_id]_vars

\* C2 witness: the last request still carried an older session id than the
\* one now stored, so a later response replaced a set session id.
C2_Witness ==
    /\ SessionHeader \in DOMAIN request.headers
    /\ session_id # None
    /\ TheVal(session_id) # request.headers[SessionHeader]
    /\ TheVal(session_id) # ""

StatusDigits == (404 :> <<"4", "0", "4">>) @@ (500 :> <<"5", "0", "0">>)

\* C4: a non-200 response gives a dict whose only key is 'error' (so it has no
\* 'result' key), a non-empty string containing the status code and the body.
C4_Non200ErrorShape ==
    (response.kind = "response" /\ response.status # 200) =>
        /\ result.kind = "return"
        /\ "error" \in DOMAIN result.value
        /\ "result" \notin DOMAIN result.value
        /\ Len(result.value["error"]) > 0
        /\ Contains(result.value["error"], StatusDigits[response.status])
        /\ Contains(result.value["error"], response.text)

\* C4 witness: a 404 whose body is the JSON object {"result":1}.
C4_Witness ==
    /\ response.kind = "response" /\ response.status = 404
    /\ Decodable(response.text) /\ "result" \in DOMAIN JsonDecode(response.text)
    /\ result.kind = "return"

ParamsOfCall == request.data["params"]

\* C5 (as claimed): call_tool sends tools/call with params.name = name, and
\* params has 'arguments' iff the caller supplied a mapping (an empty one
\* included), equal to the mapping supplied.
C5_ArgumentsIffSupplied ==
    call.op = "call_tool" =>
        /\ request.data["method"] = "tools/call"
        /\ "params" \in DOMAIN request.data
        /\ ParamsOfCall["name"] = call.tool_name
        /\ "arguments" \in DOMAIN ParamsOfCall <=> call.arguments # None
        /\ call.arguments # None =>
             /\ DOMAIN ParamsOfCall = {"name", "arguments"}
             /\ ParamsOfCall["arguments"] = TheVal(call.arguments)

\* C5 (amended): call_tool sends tools/call with params.name = name, and
\* params has 'arguments' iff the caller supplied a non-empty mapping, in
\* which case params is {name, arguments} with the mapping unchanged; an
\* empty mapping is left out like an absent one.
C5_ArgumentsIffNonEmpty ==
    call.op = "call_tool" =>
        LET supplied == call.arguments # None
                        /\ DOMAIN TheVal(call.arguments) # {}
        IN  /\ request.data["method"] = "tools/call"
            /\ "params" \in DOMAIN request.data
            /\ ParamsOfCall["name"] = call.tool_name
            /\ "arguments" \in DOMAIN ParamsOfCall <=> supplied
            /\ supplied =>
                 /\ DOMAIN ParamsOfCall = {"name", "arguments"}
                 /\ ParamsOfCall["arguments"] = TheVal(call.arguments)
            /\ ~supplied => DOMAIN ParamsOfCall = {"name"}

\* C5 witness: call_tool was given an empty mapping and sent params of name
\* alone.
C5_Witness ==
    /\ call.op = "call_tool" /\ call.arguments = Some(EmptyDict)
    /\ request.sent /\ DOMAIN ParamsOfCall = {"name"}

\* C10 (as claimed): session_id changes only by a 200 response carrying the
\* session header; a transport failure or a non-200 response leaves it.
C10_ChangesOnlyOn200 ==
    [][(response'.kind = "failure" \/ response'.status # 200)
          => session_id' = session_id]_vars

\* C10 (amended): session_id changes only by a response that carries the
\* session header, whatever its status; a transport failure or a response
\* without the header leaves session_id exactly as it was before the call.
C10_ChangesOnlyByHeader ==
    [][(response'.kind = "failure"
        \/ SessionHeader \notin DOMAIN response'.headers)
          => session_id' = session_id]_vars

\* C10 witness: a non-200 response carrying the header set a session id that
\* the request of the same call did not carry yet.
C10_Witness ==
    /\ response.kind = "response" /\ response.status # 200
    /\ SessionHeader \in DOMAIN response.headers
    /\ session_id = Some(response.headers[SessionHeader])
    /\ request.sent /\ SessionHeader \notin DOMAIN request.headers
    /\ response.headers[SessionHeader] # ""

-----------------------------------------------------------------------------
(* Claims about MCPSSEClient.connect_sse, checked under SpecSSE *)

ConsumerStopped == driver_pc \in {"after_loop", "exited"}

\* C6 (as claimed): on every exit path (the driver's break after max_events
\* lines, the end of the stream, a non-200 status, an error) the streaming
\* connection is released exactly once: it is never left open once the
\* consumer has stopped iterating, and it is never released twice.
C6_ReleasedExactlyOnce ==
    /\ releases <= 1
    /\ (ConsumerStopped /\ conn # "none") =>
          (conn = "closed" /\ releases = 1)

\* C7 (as claimed): after a transport error on the open stream the line
\* sequence just ends; the consumer's iteration ends normally and no
\* exception reaches it.
C7_ErrorEndsSequence ==
    fault = "midstream" =>
        (gen = "done" /\ loop_end = "exhausted" /\ caught = "")

\* C7 (amended): after a transport error on the open stream the connection is
\* released once and the exception propagates out of the line sequence to the
\* consumer; the driver's async for ends by that exception, which one of the
\* driver's except clauses takes, and the lines yielded before it stay yielded.
C7_ErrorPropagates ==
    fault = "midstream" =>
        /\ gen = "raised"
        /\ conn = "closed" /\ releases = 1
        /\ loop_end = "exception"
        /\ caught \in {"asyncio.TimeoutError", "Exception"}
        /\ ConsumerStopped
        /\ Len(yielded) = events_received

\* C7 witness: the error struck after lines had been yielded, and the driver
\* has run to its end.
C7_Witness ==
    /\ fault = "midstream" /\ Len(yielded) >= 2
    /\ caught = "Exception" /\ driver_pc = "exited"

\* C8: a streaming GET answered with a status other than 200 yields no line
\* and ends without raising.
C8_Non200YieldsNothing ==
    (sse_status # None /\ TheVal(sse_status) # 200) =>
        /\ yielded = <<>> /\ delivered = <<>> /\ events_received = 0
        /\ gen = "done" /\ loop_end = "exhausted"
        /\ caught = "" /\ fault = "none"

\* C8 witness: the GET was answered 404 and the driver has run to its end.
C8_Witness ==
    /\ sse_status = Some(404) /\ gen = "done" /\ driver_pc = "exited"

NonBlank(l) == \E i \in 1..Len(l) : l[i] \notin {" ", "\t"}

\* C9: on a 200 stream the lines yielded are exactly the delivered lines that
\* are not blank (neither empty nor whitespace only), unmodified and in order.
C9_YieldsNonBlankLines ==
    /\ yielded = SelectSeq(delivered, NonBlank)
    /\ \A i \in 1..Len(yielded) : NonBlank(yielded[i])

\* C9 witness: an empty or whitespace-only line and both kinds of non-blank
\* line were delivered, and the two non-blank kinds were yielded.
C9_Witness ==
    /\ sse_status = Some(200)
    /\ \E i \in 1..Len(delivered) : ~NonBlank(delivered[i])
    /\ \E i, j \in 1..Len(yielded) :
          i < j /\ yielded[i] = <<" ", "b">> /\ yielded[j] = <<"a">>

-----------------------------------------------------------------------------
(* Claims about both clients under any caller, checked under SpecCalls *)

StreamOpenAtPost == post_call.open

\* C12: send_mcp_request returns None and never raises, whatever the POST
\* met, so the response body never reaches the caller; and a call of it
\* changes nothing of the stream: the connection, the generator and the
\* lines delivered and yielded are what they were, and the lines yielded
\* stay the non-blank lines delivered.
C12_FireAndForget ==
    /\ [](post_result.kind # "raise")
    /\ [](post_result.kind = "return" => post_result.value = None)
    /\ [](yielded = SelectSeq(delivered, NonBlank))
    /\ [][post_calls' # post_calls =>
            (sse_vars' = sse_vars /\ get_vars' = get_vars)]_vars

\* C12 witness: the POST was answered 404 with a body while the stream was
\* open, and the stream has yielded a further line since.
C12_Witness ==
    /\ StreamOpenAtPost
    /\ post_response.kind = "response" /\ post_response.status = 404
    /\ post_response.text # <<>>
    /\ post_result.kind = "return"
    /\ Len(yielded) > post_call.seen

\* a JSON-RPC envelope for a call with this method and these params
EnvelopeFor(data, method, params) ==
    LET nonempty == params # None /\ DOMAIN TheVal(params) # {}
    IN  /\ {"jsonrpc", "id", "method"} \subseteq DOMAIN data
        /\ DOMAIN data \subseteq {"jsonrpc", "id", "method", "params"}
        /\ data["jsonrpc"] = "2.0"
        /\ data["id"] = 1
        /\ data["method"] = method
        /\ "params" \in DOMAIN data <=> nonempty
        /\ nonempty => data["params"] = TheVal(params)
        /\ "params" \in DOMAIN data => DOMAIN data["params"] # {}

\* C13: every request built by MCPClient.send_request and by
\* MCPSSEClient.send_mcp_request has jsonrpc "2.0", id 1 and the method, and
\* has params iff the params passed are a non-empty mapping.
C13_Envelope ==
    /\ request.sent => EnvelopeFor(request.data, passed.method, passed.params)
    /\ post_request.sent =>
          EnvelopeFor(post_request.data, post_call.method, post_call.params)

\* C13 witness: send_mcp_request was passed an empty mapping and sent an
\* envelope without params.
C13_Witness ==
    /\ post_request.sent /\ post_call.params = Some(EmptyDict)
    /\ "params" \notin DOMAIN post_request.data

-----------------------------------------------------------------------------
(* Claim about main(), checked under SpecMain *)

AllTrue(rs) == \A i \in 1..Len(rs) : rs[i]

====
